---- MODULE Spec2Model ----
(***************************************************************************)
(* Model of hummingbot/remote_iface/mqtt.py: the MQTT command dispatcher   *)
(* (MQTTCommands) and the event forwarder (MQTTEventForwarder).            *)
(*                                                                         *)
(* A command handler is a synchronous function, so each handler is one     *)
(* action; the status handler is two, because run_until_complete hands     *)
(* the event loop to the calling thread until the coroutine completes.     *)
(* What the application does when it is called (return or raise) is the    *)
(* handler's input and is drawn with \E.  Every call a handler makes to    *)
(* the application is recorded in `calls`, in call order.                  *)
(*                                                                         *)
(* Spec is the command dispatcher, SpecEvents the event forwarder with     *)
(* its worker threads and the callback queue of the event loop.            *)
(***************************************************************************)
EXTENDS Integers, Sequences, FiniteSets, TLC

(***************************************************************************)
(* Bounds.                                                                 *)
(***************************************************************************)
MaxParams == 3          \* longest parameter list of a config request
MaxEvents == 3          \* events fired in one run
MaxClock  == 1          \* ticks of the wall clock

(***************************************************************************)
(* Threads.  "main" is threading.main_thread(), the owning context.        *)
(***************************************************************************)
MainThread == "main"
Workers    == {"t1", "t2"}
Threads    == {MainThread} \cup Workers
NoThread   == "none"

(***************************************************************************)
(* What an application call does: it returns (NoExc) or raises an          *)
(* Exception whose str() is one of Msgs.                                   *)
(***************************************************************************)
NoExc    == "NoExc"
Msgs     == {"E1", "E2"}
Outcomes == {NoExc} \cup Msgs

\* the exception object raised with message m, and str(e)
Raise(m) == [args |-> <<m>>]
Str(e)   == IF Len(e.args) = 1 THEN e.args[1] ELSE ""

\* RuntimeError raised by loop.run_until_complete when the loop already runs
LoopRunningMsg == "This event loop is already running"

(***************************************************************************)
(* Requests and responses.                                                 *)
(***************************************************************************)
Keys   == {"k1", "k2"}
Vals   == {"v1", "v2"}
Pairs  == Keys \X Vals
NULL   == "None"
Strategies == {NULL, "s1"}

STATUS_OK    == "OK"
STATUS_ERROR == "ERROR"

\* a freshly constructed XxxCommandMessage.Response(); a text payload is a
\* sequence of characters, so the empty string is <<>>
DefaultResponse(kind) ==
    [kind |-> kind, status |-> STATUS_OK, msg |-> "",
     changes |-> <<>>, data |-> <<>>, trades |-> <<>>]

NoResponse == [kind |-> "none", status |-> "none", msg |-> "",
               changes |-> <<>>, data |-> <<>>, trades |-> <<>>]

\* the except-branch of every handler
Failed(response, e) == [response EXCEPT !.status = STATUS_ERROR, !.msg = Str(e)]

\* one call into the application, and what it did
Call(op, args, o) == [op |-> op, args |-> args, exc |-> o]

\* what a handler run leaves behind
Returned(response, cs)   == [returned |-> TRUE, response |-> response,
                             calls |-> cs, escaped |-> NoExc]
Propagated(m, cs)        == [returned |-> FALSE, response |-> NoResponse,
                             calls |-> cs, escaped |-> m]

SeqsUpTo(S, n) == UNION {[1..k -> S] : k \in 0..n}

VARIABLES
    configurable,   \* hb_app.configurable_keys(): the allow-list
    request,        \* the request being (or last) handled
    caller,         \* thread the handler runs on
    phase,          \* "idle" | "awaiting" | "returned" | "propagated"
    response,       \* the response handed back to the transport
    escaped,        \* message of the exception that left the handler
    calls,          \* application calls of the last handler run, in order
    loopThread,     \* thread running _ev_loop, or NoThread
    ready,          \* callbacks call_soon_threadsafe put on _ev_loop
    published,      \* what event_fw_pub.publish was given, in order
    sent,           \* every invocation of the event handler by a source
    now,            \* the wall clock, in clock units
    evEscaped,      \* exception that left the last run of the event handler
    logPublished,   \* what log_pub.publish was given, in order
    logEscaped,     \* exception that left the last emit
    toggles,        \* client_config_map.mqtt_bridge.mqtt_commands/_events/_notifier
    appMarkets,     \* hb_app.markets
    commandSets,    \* MQTTCommands objects built (each registers the 8 endpoints)
    notifiers,      \* MQTTNotifier objects in hb_app.notifiers
    fwMarkets,      \* per MQTTEventForwarder built: its _markets
    evPublishers,   \* publishers created on the events topic
    listeners,      \* <<forwarder, market, event type>> registered on markets
    lastOp,         \* per forwarder: "start" or "stop", the last listener call
    startLog,       \* the start_* calls made on the gateway, in order
    fwEscaped       \* exception that left the last forwarder construction

cmdVars == <<configurable, request, caller, phase, response, escaped, calls>>
evVars  == <<ready, published, sent, now, evEscaped>>
logVars == <<logPublished, logEscaped>>
gwVars  == <<toggles, appMarkets, commandSets, notifiers, fwMarkets,
             evPublishers, listeners, lastOp, startLog, fwEscaped>>
restVars == <<logVars, gwVars>>
vars    == <<cmdVars, loopThread, evVars, restVars>>

(***************************************************************************)
(* MQTTCommands._on_cmd_start / _on_cmd_stop                               *)
(***************************************************************************)
on_cmd_start(msg, o) ==
    LET cs == <<Call("start", msg.args, o)>>
        r  == DefaultResponse("start")
    IN  IF o = NoExc THEN Returned(r, cs)
        ELSE Returned(Failed(r, Raise(o)), cs)

on_cmd_stop(msg, o) ==
    LET cs == <<Call("stop", msg.args, o)>>
        r  == DefaultResponse("stop")
    IN  IF o = NoExc THEN Returned(r, cs)
        ELSE Returned(Failed(r, Raise(o)), cs)

(***************************************************************************)
(* MQTTCommands._on_cmd_config                                             *)
(***************************************************************************)
\* `param[0] in self._hb_app.configurable_keys()`
IsConfigurableUnchecked(key, keys) == TRUE

IsConfigurable(key, keys) == key \in keys

\* `self._hb_app.config(param[0], param[1])` then `response.changes.append`:
\* the append is reached only when config returned
ApplyParamAppendFirst(changes, param, o) ==
    [changes |-> Append(changes, <<param[1], param[2]>>), exc |-> o]

ApplyParam(changes, param, o) ==
    IF o = NoExc
    THEN [changes |-> Append(changes, <<param[1], param[2]>>), exc |-> NoExc]
    ELSE [changes |-> changes, exc |-> o]

\* a loop whose try sits inside the for: a failure does not end the iteration
RECURSIVE config_loop_continue(_, _, _, _, _, _, _)
config_loop_continue(params, os, keys, i, changes, cs, exc) ==
    IF i > Len(params)
    THEN [changes |-> changes, calls |-> cs, exc |-> exc]
    ELSE LET param == params[i]
             cs1   == Append(cs, Call("configurable_keys", <<>>, NoExc))
         IN  IF IsConfigurable(param[1], keys)
             THEN LET a   == ApplyParam(changes, param, os[i])
                      cs2 == Append(cs1, Call("config", <<param[1], param[2]>>, os[i]))
                  IN  config_loop_continue(params, os, keys, i + 1, a.changes, cs2,
                                           IF a.exc # NoExc THEN a.exc ELSE exc)
             ELSE config_loop_continue(params, os, keys, i + 1, changes, cs1, exc)

\* the for loop of lines 150-153, from the i-th pair on; os[i] is what
\* config(params[i]) does if it is called.  A raise leaves the loop.
RECURSIVE config_loop(_, _, _, _, _, _, _)
config_loop(params, os, keys, i, changes, cs, exc) ==
    IF i > Len(params)
    THEN [changes |-> changes, calls |-> cs, exc |-> exc]
    ELSE LET param == params[i]
             cs1   == Append(cs, Call("configurable_keys", <<>>, NoExc))
         IN  IF IsConfigurable(param[1], keys)
             THEN LET a   == ApplyParam(changes, param, os[i])
                      cs2 == Append(cs1, Call("config", <<param[1], param[2]>>, os[i]))
                  IN  IF a.exc # NoExc
                      THEN [changes |-> a.changes, calls |-> cs2, exc |-> a.exc]
                      ELSE config_loop(params, os, keys, i + 1, a.changes, cs2, exc)
             ELSE config_loop(params, os, keys, i + 1, changes, cs1, exc)

\* a handler that treats the empty list like any other
on_cmd_config_no_flow(msg, o, os, keys) ==
    LET r == DefaultResponse("config")
        l == config_loop(msg.params, os, keys, 1, r.changes, <<>>, NoExc)
        r1 == [r EXCEPT !.changes = l.changes]
    IN  IF l.exc = NoExc THEN Returned(r1, l.calls)
        ELSE Returned(Failed(r1, Raise(l.exc)), l.calls)

\* o is what the no-argument config() does, os what config(k, v) does
on_cmd_config(msg, o, os, keys) ==
    LET r == DefaultResponse("config")
    IN  IF Len(msg.params) = 0
        THEN LET cs == <<Call("config", <<>>, o)>>
             IN  IF o = NoExc THEN Returned(r, cs)
                 ELSE Returned(Failed(r, Raise(o)), cs)
        ELSE LET l  == config_loop(msg.params, os, keys, 1, r.changes, <<>>, NoExc)
                 r1 == [r EXCEPT !.changes = l.changes]
             IN  IF l.exc = NoExc THEN Returned(r1, l.calls)
                 ELSE Returned(Failed(r1, Raise(l.exc)), l.calls)

(***************************************************************************)
(* MQTTCommands._on_cmd_import                                             *)
(***************************************************************************)
\* f'{strategy_name}.yml'
StrategyFileName(strategy_name) == strategy_name \o ".yml"

\* what the except-branch of the import handler does before it fills the
\* response: self._hb_app.notify(str(e)); on is what notify does
NotifyNever(e, on) == <<>>

NotifyFailure(e, on) == <<Call("notify", <<Str(e)>>, on)>>

\* a handler without the `is not None` test
on_cmd_import_unguarded(msg, o, on) ==
    LET r  == DefaultResponse("import")
        c1 == <<Call("import_command", <<StrategyFileName(msg.strategy)>>, o)>>
    IN  IF o = NoExc THEN Returned(r, c1)
        ELSE Returned(Failed(r, Raise(o)), c1 \o NotifyFailure(Raise(o), on))

\* o is what import_command does, on what notify does
on_cmd_import(msg, o, on) ==
    LET r == DefaultResponse("import")
        strategy_name == msg.strategy
    IN  IF strategy_name # NULL
        THEN LET c1 == <<Call("import_command",
                              <<StrategyFileName(strategy_name)>>, o)>>
             IN  IF o = NoExc THEN Returned(r, c1)
                 ELSE LET e  == Raise(o)
                          c2 == c1 \o NotifyFailure(e, on)
                      IN  IF \E i \in 1..Len(c2) :
                                 c2[i].op = "notify" /\ c2[i].exc # NoExc
                          THEN Propagated(on, c2)
                          ELSE Returned(Failed(r, e), c2)
        ELSE Returned(r, <<>>)

(***************************************************************************)
(* MQTTCommands._on_cmd_history / _on_cmd_balance_limit / _paper           *)
(***************************************************************************)
\* get_history_trades returns None or a query; query.all() gives its rows
NoTrades     == [isNone |-> TRUE, rows |-> <<>>]
SomeTrades   == [isNone |-> FALSE, rows |-> <<"trade1">>]
TradeQueries == {NoTrades, SomeTrades}

\* a handler that fetches and stores the trades before it shows the history
on_cmd_history_fetch_first(msg, o1, o2, q, o3) ==
    LET r  == DefaultResponse("history")
        c1 == <<Call("get_history_trades", <<msg.args[1]>>, o2)>>
        c2 == IF q.isNone THEN c1 ELSE Append(c1, Call("all", <<>>, o3))
        r1 == IF q.isNone THEN r ELSE [r EXCEPT !.trades = q.rows]
        c3 == Append(c2, Call("history", msg.args, o1))
    IN  IF o2 # NoExc THEN Returned(Failed(r, Raise(o2)), c1)
        ELSE IF ~q.isNone /\ o3 # NoExc THEN Returned(Failed(r, Raise(o3)), c2)
        ELSE IF o1 # NoExc THEN Returned(Failed(r1, Raise(o1)), c3)
        ELSE Returned(r1, c3)

\* o1: history(), o2: get_history_trades() returning q, o3: q.all()
on_cmd_history(msg, o1, o2, q, o3) ==
    LET r  == DefaultResponse("history")
        c1 == <<Call("history", msg.args, o1)>>
        c2 == Append(c1, Call("get_history_trades", <<msg.args[1]>>, o2))
        c3 == Append(c2, Call("all", <<>>, o3))
    IN  IF o1 # NoExc THEN Returned(Failed(r, Raise(o1)), c1)
        ELSE IF o2 # NoExc THEN Returned(Failed(r, Raise(o2)), c2)
        ELSE IF q.isNone THEN Returned(r, c2)
        ELSE IF o3 # NoExc THEN Returned(Failed(r, Raise(o3)), c3)
        ELSE Returned([r EXCEPT !.trades = q.rows], c3)

BalanceData == <<"b", "a", "l">>

on_cmd_balance_limit(msg, o) ==
    LET r  == DefaultResponse("balance_limit")
        cs == <<Call("balance", <<"limit">> \o msg.args, o)>>
    IN  IF o = NoExc THEN Returned([r EXCEPT !.data = BalanceData], cs)
        ELSE Returned(Failed(r, Raise(o)), cs)

on_cmd_balance_paper(msg, o) ==
    LET r  == DefaultResponse("balance_paper")
        cs == <<Call("balance", <<"paper">> \o msg.args, o)>>
    IN  IF o = NoExc THEN Returned([r EXCEPT !.data = BalanceData], cs)
        ELSE Returned(Failed(r, Raise(o)), cs)

(***************************************************************************)
(* MQTTCommands._on_cmd_status                                             *)
(***************************************************************************)
\* str.strip(): texts are sequences of characters
IsSpace(c) == c \in {" ", "\n", "\t"}

RECURSIVE LStrip(_)
LStrip(s) == IF s # <<>> /\ IsSpace(Head(s)) THEN LStrip(Tail(s)) ELSE s

RECURSIVE RStrip(_)
RStrip(s) == IF s # <<>> /\ IsSpace(s[Len(s)])
             THEN RStrip(SubSeq(s, 1, Len(s) - 1)) ELSE s

Strip(s) == RStrip(LStrip(s))

StatusTexts == {<<" ", "u", "p", "\n">>, <<"u", " ", "p">>}

\* run_until_complete on a loop that is running raises RuntimeError at once
\* (the coroutine is never started); otherwise the caller runs the loop
status_begin(running) ==
    LET r  == DefaultResponse("status")
        cs == <<Call("strategy_status", <<>>, NoExc)>>
    IN  IF running
        THEN [wait |-> FALSE,
              result |-> Returned(Failed(r, Raise(LoopRunningMsg)), cs)]
        ELSE [wait |-> TRUE, result |-> Returned(NoResponse, cs)]

\* the coroutine completed: it returned text, or raised o
status_end(o, text) ==
    LET r  == DefaultResponse("status")
        cs == <<Call("strategy_status", <<>>, o)>>
    IN  IF o = NoExc THEN Returned([r EXCEPT !.data = Strip(text)], cs)
        ELSE Returned(Failed(r, Raise(o)), cs)

(***************************************************************************)
(* The requests the transport delivers.  Fields a handler only passes on   *)
(* are in args, in the order the handler reads them.                       *)
(***************************************************************************)
Request(kind, params, strategy, args) ==
    [kind |-> kind, params |-> params, strategy |-> strategy, args |-> args]

NoRequest == Request("none", <<>>, NULL, <<>>)

StartArgs   == {<<"DEBUG", "False", "script.py", "False">>}
StopArgs    == {<<"False">>, <<"True">>}
HistoryArgs == {<<"7", "False", "2">>}
LimitArgs   == {<<"binance", "BTC", "1">>}
PaperArgs   == {<<"BTC", "1">>}

\* the handler ran to its end on thread t
Finish(req, t, res) ==
    /\ request'  = req
    /\ caller'   = t
    /\ response' = res.response
    /\ escaped'  = res.escaped
    /\ calls'    = res.calls
    /\ phase'    = IF res.returned THEN "returned" ELSE "propagated"
    /\ UNCHANGED <<configurable, loopThread, evVars, restVars>>

Start(t) ==
    /\ phase = "idle"
    /\ \E a \in StartArgs, o \in Outcomes :
         LET req == Request("start", <<>>, NULL, a)
         IN  Finish(req, t, on_cmd_start(req, o))

Stop(t) ==
    /\ phase = "idle"
    /\ \E a \in StopArgs, o \in Outcomes :
         LET req == Request("stop", <<>>, NULL, a)
         IN  Finish(req, t, on_cmd_stop(req, o))

Config(t) ==
    /\ phase = "idle"
    /\ \E ps \in SeqsUpTo(Pairs, MaxParams) :
         \E o \in (IF ps = <<>> THEN Outcomes ELSE {NoExc}),
            os \in [1..Len(ps) -> Outcomes] :
           LET req == Request("config", ps, NULL, <<>>)
           IN  Finish(req, t, on_cmd_config(req, o, os, configurable))

Import(t) ==
    /\ phase = "idle"
    /\ \E s \in Strategies, o \in Outcomes, on \in Outcomes :
         LET req == Request("import", <<>>, s, <<>>)
         IN  Finish(req, t, on_cmd_import(req, o, on))

History(t) ==
    /\ phase = "idle"
    /\ \E a \in HistoryArgs, o1 \in Outcomes, o2 \in Outcomes,
          q \in TradeQueries, o3 \in Outcomes :
         LET req == Request("history", <<>>, NULL, a)
         IN  Finish(req, t, on_cmd_history(req, o1, o2, q, o3))

BalanceLimit(t) ==
    /\ phase = "idle"
    /\ \E a \in LimitArgs, o \in Outcomes :
         LET req == Request("balance_limit", <<>>, NULL, a)
         IN  Finish(req, t, on_cmd_balance_limit(req, o))

BalancePaper(t) ==
    /\ phase = "idle"
    /\ \E a \in PaperArgs, o \in Outcomes :
         LET req == Request("balance_paper", <<>>, NULL, a)
         IN  Finish(req, t, on_cmd_balance_paper(req, o))

\* _on_cmd_status up to run_until_complete
StatusBegin(t) ==
    /\ phase = "idle"
    /\ LET b == status_begin(loopThread # NoThread)
       IN  /\ request'  = Request("status", <<>>, NULL, <<>>)
           /\ caller'   = t
           /\ response' = b.result.response
           /\ escaped'  = NoExc
           /\ calls'    = b.result.calls
           /\ phase'    = IF b.wait THEN "awaiting" ELSE "returned"
           /\ loopThread' = IF b.wait THEN t ELSE loopThread
    /\ UNCHANGED <<configurable, evVars, restVars>>

\* the status coroutine completes; run_until_complete stops the loop
StatusEnd ==
    /\ phase = "awaiting"
    /\ \E o \in Outcomes, text \in StatusTexts :
         LET res == status_end(o, text)
         IN  /\ response' = res.response
             /\ escaped'  = res.escaped
             /\ calls'    = res.calls
             /\ phase'    = "returned"
    /\ loopThread' = NoThread
    /\ UNCHANGED <<configurable, request, caller, evVars, restVars>>

\* the transport takes what the handler left (it sends the response, or
\* sees the exception) and the endpoint waits for the next request
Reply ==
    /\ phase \in {"returned", "propagated"}
    /\ phase'    = "idle"
    /\ request'  = NoRequest
    /\ caller'   = NoThread
    /\ response' = NoResponse
    /\ escaped'  = NoExc
    /\ calls'    = <<>>
    /\ UNCHANGED <<configurable, loopThread, evVars, restVars>>

\* the owning context runs its loop (run_forever) and leaves it
LoopStart ==
    /\ loopThread = NoThread
    /\ loopThread' = MainThread
    /\ UNCHANGED <<cmdVars, evVars, restVars>>

LoopStop ==
    /\ loopThread = MainThread
    /\ phase # "awaiting"
    /\ loopThread' = NoThread
    /\ UNCHANGED <<cmdVars, evVars, restVars>>

Init ==
    /\ configurable \in SUBSET Keys
    /\ request  = NoRequest
    /\ caller   = NoThread
    /\ phase    = "idle"
    /\ response = NoResponse
    /\ escaped  = NoExc
    /\ calls    = <<>>
    /\ loopThread = NoThread
    /\ ready     = <<>>
    /\ published = <<>>
    /\ sent      = <<>>
    /\ now       = 0
    /\ evEscaped = NoExc
    /\ logPublished = <<>>
    /\ logEscaped   = NoExc
    /\ toggles      = [commands |-> FALSE, events |-> FALSE, notifier |-> FALSE]
    /\ appMarkets   = {}
    /\ commandSets  = 0
    /\ notifiers    = 0
    /\ fwMarkets    = <<>>
    /\ evPublishers = 0
    /\ listeners    = {}
    /\ lastOp       = <<>>
    /\ startLog     = <<>>
    /\ fwEscaped    = NoExc

Next ==
    \/ \E t \in Threads : Start(t)
    \/ \E t \in Threads : Stop(t)
    \/ \E t \in Threads : Config(t)
    \/ \E t \in Threads : Import(t)
    \/ \E t \in Threads : History(t)
    \/ \E t \in Threads : BalanceLimit(t)
    \/ \E t \in Threads : BalancePaper(t)
    \/ \E t \in Threads : StatusBegin(t)
    \/ StatusEnd
    \/ Reply
    \/ LoopStart
    \/ LoopStop

Spec == Init /\ [][Next]_vars

\* the start of the runs in which the command dispatcher takes no part:
\* its allow-list is left empty
InitGateway == Init /\ configurable = {}

(***************************************************************************)
(* Properties of the command dispatcher.                                   *)
(***************************************************************************)
Done      == phase \in {"returned", "propagated"}
Answered  == phase = "returned"

\* the calls of the last run that went to operation op, in call order
CallsTo(op) == SelectSeq(calls, LAMBDA c : c.op = op)

\* positions of the calls that raised
RaisedAt == {i \in 1..Len(calls) : calls[i].exc # NoExc}

Allowed(p) == p[1] \in configurable

\* C1: whatever an application call raises, every handler hands a
\* well-formed response back to the transport: no run ends with an
\* exception leaving the handler.
C1_HandlerAlwaysReturns ==
    Done => /\ phase = "returned"
            /\ response.kind = request.kind
            /\ response.status \in {STATUS_OK, STATUS_ERROR}

\* C2: a returned response has status ERROR exactly when an application
\* call of the handler raised, its message is then that failure's
\* description, and otherwise the status is OK.
C2_ErrorIffApplicationRaised ==
    Answered =>
        /\ (response.status = STATUS_ERROR) <=> (RaisedAt # {})
        /\ response.status = STATUS_ERROR =>
               \E i \in RaisedAt : response.msg = calls[i].exc
        /\ response.status # STATUS_ERROR => response.status = STATUS_OK

\* the case of C3: a configuration request [(k1,v1),(k2,v2)] whose k1 is
\* allow-listed and whose config(k1, v1) raised
C3_Case ==
    /\ Answered
    /\ request.kind = "config"
    /\ Len(request.params) = 2
    /\ Allowed(request.params[1])
    /\ Len(calls) >= 2
    /\ calls[2] = Call("config", request.params[1], calls[2].exc)
    /\ calls[2].exc # NoExc

\* C3 as stated: in that case the response has status ERROR and
\* changes = [(k1,v1)].
C3_FailedPairRecorded ==
    C3_Case => /\ response.status = STATUS_ERROR
               /\ response.changes = <<request.params[1]>>

\* C3, amended: in that case the response has status ERROR and changes = [],
\* because the pair is appended only after config(k1, v1) returned.
C3_FailedPairNotRecorded ==
    C3_Case => /\ response.status = STATUS_ERROR
               /\ response.changes = <<>>

C3_Witness ==
    /\ C3_Case
    /\ Allowed(request.params[2])
    /\ request.params[2] # request.params[1]

\* number of pairs of the request that were checked against the allow-list
Checked == Len(CallsTo("configurable_keys"))

\* C4: the pairs of a non-empty configuration request are processed in the
\* order supplied; a pair whose application raises is the last one looked
\* at (no later pair is checked or applied), and changes holds, in order,
\* the pairs applied before it.
C4_OrderedAbortKeepsChanges ==
    (Answered /\ request.kind = "config" /\ request.params # <<>>) =>
        LET ps   == request.params
            n    == Checked
            args == [i \in 1..Len(CallsTo("config")) |-> CallsTo("config")[i].args]
        IN  /\ n \in 1..Len(ps)
            /\ args = SelectSeq(SubSeq(ps, 1, n), Allowed)
            /\ IF RaisedAt # {}
               THEN /\ RaisedAt = {Len(calls)}
                    /\ calls[Len(calls)].op = "config"
                    /\ calls[Len(calls)].args = ps[n]
                    /\ response.status = STATUS_ERROR
                    /\ response.changes = SelectSeq(SubSeq(ps, 1, n - 1), Allowed)
               ELSE /\ n = Len(ps)
                    /\ response.status = STATUS_OK
                    /\ response.changes = SelectSeq(ps, Allowed)

\* a request of three allow-listed pairs whose second application raised:
\* one pair is in changes, one pair was never looked at
C4_Witness ==
    /\ Answered
    /\ request.kind = "config"
    /\ Len(request.params) = 3
    /\ \A i \in 1..3 : Allowed(request.params[i])
    /\ response.status = STATUS_ERROR
    /\ Checked = 2
    /\ response.changes = <<request.params[1]>>

\* C5: a pair whose key is not allow-listed is never applied and never in
\* changes, and a (non-empty) request of such pairs only is answered with
\* status OK and changes = [].
C5_UnlistedKeysSkipped ==
    (Answered /\ request.kind = "config") =>
        /\ \A i \in 1..Len(calls) :
               (calls[i].op = "config" /\ calls[i].args # <<>>)
                   => calls[i].args[1] \in configurable
        /\ \A j \in 1..Len(response.changes) :
               response.changes[j][1] \in configurable
        /\ (/\ request.params # <<>>
            /\ \A i \in 1..Len(request.params) : ~Allowed(request.params[i]))
           => /\ response.status = STATUS_OK
              /\ response.changes = <<>>
              /\ CallsTo("config") = <<>>

C5_Witness ==
    /\ Answered
    /\ request.kind = "config"
    /\ Len(request.params) = 2
    /\ configurable # {}
    /\ \A i \in 1..2 : ~Allowed(request.params[i])
    /\ response.status = STATUS_OK

\* C6: a configuration request without parameters calls config() with no
\* key and value, once, applies nothing, and when that call returns the
\* response has status OK and changes = [].
C6_EmptyParamsInteractive ==
    (Answered /\ request.kind = "config" /\ request.params = <<>>) =>
        /\ Len(calls) = 1
        /\ calls[1].op = "config"
        /\ calls[1].args = <<>>
        /\ calls[1].exc = NoExc =>
               (response.status = STATUS_OK /\ response.changes = <<>>)

C6_Witness ==
    /\ Answered
    /\ request.kind = "config"
    /\ request.params = <<>>
    /\ configurable # {}
    /\ calls = <<Call("config", <<>>, NoExc)>>
    /\ response.status = STATUS_OK

\* C7: an import request whose strategy is null gets the default response
\* (status OK, empty message) and the application is not called.
C7_NullStrategyNoImport ==
    (Done /\ request.kind = "import" /\ request.strategy = NULL) =>
        /\ Answered
        /\ response.status = STATUS_OK
        /\ response.msg = ""
        /\ calls = <<>>

C7_Witness ==
    /\ Answered
    /\ request.kind = "import"
    /\ request.strategy = NULL
    /\ response.status = STATUS_OK

\* C8: an import request with a strategy name calls import_command first;
\* when that raises with message E, notify(E) is called exactly once after
\* it, and a response that is returned has status ERROR and message E;
\* when import_command returns, notify is not called.
C8_ImportFailureNotifiedOnce ==
    (Done /\ request.kind = "import" /\ request.strategy # NULL) =>
        /\ Len(calls) >= 1
        /\ calls[1].op = "import_command"
        /\ calls[1].args = <<StrategyFileName(request.strategy)>>
        /\ IF calls[1].exc # NoExc
           THEN /\ Len(calls) = 2
                /\ calls[2].op = "notify"
                /\ calls[2].args = <<calls[1].exc>>
                /\ Answered => /\ response.status = STATUS_ERROR
                               /\ response.msg = calls[1].exc
           ELSE /\ CallsTo("notify") = <<>>
                /\ Answered
                /\ response.status = STATUS_OK

C8_Witness ==
    /\ Answered
    /\ request.kind = "import"
    /\ request.strategy # NULL
    /\ calls[1].exc = "E1"
    /\ CallsTo("notify") = <<Call("notify", <<"E1">>, NoExc)>>
    /\ response.status = STATUS_ERROR
    /\ response.msg = "E1"

\* C15: for every command but config, when an application call of the
\* handler raised, every payload field of the returned response (status
\* text, trades, balance data, changes) is at its default, empty value.
C15_FailureLeavesPayloadEmpty ==
    (Answered /\ request.kind # "config" /\ RaisedAt # {}) =>
        /\ response.status = STATUS_ERROR
        /\ response.data = <<>>
        /\ response.trades = <<>>
        /\ response.changes = <<>>

\* the history was shown, the trades were found, and reading them raised
C15_Witness ==
    /\ Answered
    /\ request.kind = "history"
    /\ Len(calls) = 3
    /\ calls[1].exc = NoExc
    /\ calls[2].exc = NoExc
    /\ calls[3].op = "all"
    /\ calls[3].exc = "E2"
    /\ response.trades = <<>>

(***************************************************************************)
(* MQTTEventForwarder._send_mqtt_event                                     *)
(*                                                                         *)
(* A number is [whole, half]: whole units and whether half a unit more,    *)
(* so that int() has something to cut off; num tells a number from a value *)
(* int() rejects.  A mapping is the sequence of its <<key, value>> items.  *)
(***************************************************************************)
Float(w, h) == [num |-> TRUE, whole |-> w, half |-> h]

\* a value int() does not take (None, a text that is no number)
NotANumber == [num |-> FALSE, whole |-> 0, half |-> 0]

\* int(x) of a non-negative number: the fraction is cut off
IntOfRounded(x) == x.whole + x.half

IntOf(x) == x.whole

\* TypeError of int(x) when x is not a number
IntErrorMsg == "int() argument must be a string, a bytes-like object or a number"

\* datetime.now().timestamp() when the clock shows c half units
WallClock(c) == Float(c \div 2, c % 2)

\* the label table of lines 293-309, keyed by MarketEvent member
event_types ==
    [tag \in {"BuyOrderCreated", "BuyOrderCompleted", "SellOrderCreated",
              "SellOrderCompleted", "OrderFilled", "OrderCancelled",
              "OrderExpired", "OrderFailure", "FundingPaymentCompleted",
              "RangePositionLiquidityAdded", "RangePositionLiquidityRemoved",
              "RangePositionUpdate", "RangePositionUpdateFailure",
              "RangePositionFeeCollected", "RangePositionClosed"} |->
        CASE tag = "BuyOrderCreated"               -> "BuyOrderCreated"
          [] tag = "BuyOrderCompleted"             -> "BuyOrderCompleted"
          [] tag = "SellOrderCreated"              -> "SellOrderCreated"
          [] tag = "SellOrderCompleted"            -> "SellOrderCompleted"
          [] tag = "OrderFilled"                   -> "OrderFilled"
          [] tag = "OrderCancelled"                -> "OrderCancelled"
          [] tag = "OrderExpired"                  -> "OrderExpired"
          [] tag = "OrderFailure"                  -> "OrderFailure"
          [] tag = "FundingPaymentCompleted"       -> "FundingPaymentCompleted"
          [] tag = "RangePositionLiquidityAdded"   -> "RangePositionLiquidityAdded"
          [] tag = "RangePositionLiquidityRemoved" -> "RangePositionLiquidityRemoved"
          [] tag = "RangePositionUpdate"           -> "RangePositionUpdate"
          [] tag = "RangePositionUpdateFailure"    -> "RangePositionUpdateFailure"
          [] tag = "RangePositionFeeCollected"     -> "RangePositionFeeCollected"
          [] tag = "RangePositionClosed"           -> "RangePositionClosed"]

\* event_types[event_tag], "Unknown" on KeyError
EventTypeOrTag(event_tag) == event_tag

EventType(event_tag) ==
    IF event_tag \in DOMAIN event_types THEN event_types[event_tag]
    ELSE "Unknown"

\* an event payload: what kind of object it is and the items it holds
Payload(shape, items) == [shape |-> shape, items |-> items]

\* asdict(event) / event._asdict() / dict(event), {} when dict() fails
EventData(event) ==
    IF event.shape = "dataclass" THEN event.items
    ELSE IF event.shape = "namedtuple" THEN event.items
    ELSE IF event.shape = "mapping" THEN event.items
    ELSE <<>>

HasKey(d, k) == \E i \in 1..Len(d) : d[i][1] = k
Get(d, k)    == d[CHOOSE i \in 1..Len(d) : d[i][1] = k][2]
Pop(d, k)    == SelectSeq(d, LAMBDA item : item[1] # k)

\* the EventMessage of lines 292-335, built when the clock shows c
EventMessage(event_tag, event, c) ==
    LET event_data == EventData(event)
        timestamp  == IF HasKey(event_data, "timestamp")
                      THEN Get(event_data, "timestamp")
                      ELSE WallClock(c)
    IN  [timestamp |-> IntOf(timestamp),
         type      |-> EventType(event_tag),
         data      |-> Pop(event_data, "timestamp")]

\* the value line 331 hands to int(): the popped entry or the wall clock
TimestampOf(event, c) ==
    LET event_data == EventData(event)
    IN  IF HasKey(event_data, "timestamp")
        THEN Get(event_data, "timestamp")
        ELSE WallClock(c)

\* int(timestamp) raises: nothing around line 331 catches it
IntRaisesNever(event, c) == FALSE

IntRaises(event, c) == ~TimestampOf(event, c).num

\* `threading.current_thread() != threading.main_thread()`
NeverHop(t) == FALSE

NeedsHop(t) == t # MainThread

\* loop.call_soon_threadsafe(callback, *args) on the loop's queue q
call_soon_first(q, cb) == <<cb>> \o q

call_soon_threadsafe(q, cb) == Append(q, cb)

\* _send_mqtt_event(event_tag, pubsub, event) run on thread t; cb holds the
\* arguments, and id, the position of the invocation in `sent`
send_mqtt_event(t, cb, q, pub, c) ==
    IF NeedsHop(t)
    THEN [ready |-> call_soon_threadsafe(q, cb), published |-> pub,
          raised |-> NoExc]
    ELSE IF IntRaises(cb.event, c)
    THEN [ready |-> q, published |-> pub, raised |-> IntErrorMsg]
    ELSE [ready |-> q,
          published |-> Append(pub, [msg    |-> EventMessage(cb.tag, cb.event, c),
                                     thread |-> t,
                                     id     |-> cb.id,
                                     at     |-> c]),
          raised |-> NoExc]

\* the events the sources fire
OrderFilledEvent ==
    Payload("dataclass", << <<"amount", Float(5, 0)>>,
                            <<"timestamp", Float(1000, 1)>> >>)
OpaqueEvent == Payload("other", <<>>)

FiredEvents == {<<"OrderFilled", OrderFilledEvent>>, <<"OrderUpdate", OpaqueEvent>>}

\* a market on thread t fires an event: the listener calls _send_mqtt_event
SendEvent(t) ==
    /\ Len(sent) < MaxEvents
    /\ \E f \in FiredEvents :
         LET cb == [tag |-> f[1], event |-> f[2], id |-> Len(sent) + 1]
             r  == send_mqtt_event(t, cb, ready, published, now)
         IN  /\ sent' = Append(sent, [thread |-> t, tag |-> f[1], event |-> f[2]])
             /\ ready' = r.ready
             /\ published' = r.published
             /\ evEscaped' = r.raised
    /\ UNCHANGED <<cmdVars, loopThread, now, restVars>>

\* the running loop takes the oldest callback and runs it on its thread
RunCallback ==
    /\ loopThread # NoThread
    /\ ready # <<>>
    /\ LET r == send_mqtt_event(loopThread, Head(ready), Tail(ready), published, now)
       IN  /\ ready' = r.ready
           /\ published' = r.published
           /\ evEscaped' = r.raised
    /\ UNCHANGED <<cmdVars, loopThread, sent, now, restVars>>

Tick ==
    /\ now < MaxClock
    /\ now' = now + 1
    /\ UNCHANGED <<cmdVars, loopThread, ready, published, sent, evEscaped, restVars>>

NextEvents ==
    \/ \E t \in Threads : SendEvent(t)
    \/ RunCallback
    \/ Tick
    \/ LoopStart
    \/ LoopStop

SpecEvents == Init /\ [][NextEvents]_vars

(***************************************************************************)
(* Properties of the event forwarder.                                      *)
(***************************************************************************)
Ids == 1..Len(sent)

Count(seqn, id) == Cardinality({i \in 1..Len(seqn) : seqn[i].id = id})

\* C9: an event handed to the handler on a thread that is not the main
\* thread is published exactly once, by the main thread, with the content
\* an invocation on the main thread at that moment produces; no other
\* thread ever publishes.  (Exactly once: at every moment the event is
\* either waiting on the loop or published, never both, never twice.)
C9_PublishedOnceByOwner ==
    /\ \A i \in 1..Len(published) :
         LET p == published[i]
         IN  /\ p.thread = MainThread
             /\ p.id \in Ids
             /\ p.msg = EventMessage(sent[p.id].tag, sent[p.id].event, p.at)
    /\ \A id \in Ids : Count(ready, id) + Count(published, id) = 1
    /\ \A i \in 1..Len(ready) :
         /\ ready[i].id \in Ids
         /\ sent[ready[i].id].thread # MainThread
         /\ ready[i].tag = sent[ready[i].id].tag
         /\ ready[i].event = sent[ready[i].id].event

\* an event of a worker thread, published after the clock moved on
C9_Witness ==
    \E i \in 1..Len(published) :
        /\ sent[published[i].id].thread \in Workers
        /\ published[i].thread = MainThread
        /\ published[i].at > 0
        /\ published[i].msg.type = "OrderFilled"
        /\ ready = <<>>

\* C10: two events one worker thread handed to the handler are published
\* in the order it handed them over, whatever other threads do meanwhile.
C10_SameSourceOrderKept ==
    \A i, j \in 1..Len(published) :
        (/\ i < j
         /\ sent[published[i].id].thread = sent[published[j].id].thread
         /\ sent[published[i].id].thread # MainThread)
        => published[i].id < published[j].id

\* t1, then t2, then t1 again, all three published
C10_Witness ==
    /\ Len(sent) = 3
    /\ sent[1].thread = "t1" /\ sent[2].thread = "t2" /\ sent[3].thread = "t1"
    /\ sent[1].tag # sent[3].tag
    /\ Len(published) = 3

(***************************************************************************)
(* MQTTLogHandler.emit                                                     *)
(***************************************************************************)
MaxLogs == 2            \* records handed to emit in one run

\* a LogRecord; Handler.format with the default formatter gives its message
LogRecord(name, levelno, levelname, message) ==
    [name |-> name, levelno |-> levelno, levelname |-> levelname,
     message |-> message]

LogRecords ==
    {LogRecord(n, l[1], l[2], m) :
        n \in {"MQTTGateway", "hummingbot"},
        l \in {<<20, "INFO">>, <<40, "ERROR">>},
        m \in {"started", "failed"}}

Format(record) == record.message

\* the LogMessage of lines 462-469; time.time() is not cut to an integer
LogMessage(record, msg_str, c) ==
    [timestamp   |-> WallClock(c),
     msg         |-> msg_str,
     level_no    |-> record.levelno,
     level_name  |-> record.levelname,
     logger_name |-> record.name]

\* emit(record): of is what self.format does, op what log_pub.publish does.
\* Neither call is inside a try.
emit(record, of, op, pub, c) ==
    IF of # NoExc THEN [published |-> pub, raised |-> of]
    ELSE IF op # NoExc THEN [published |-> pub, raised |-> op]
    ELSE [published |-> Append(pub, LogMessage(record, Format(record), c)),
          raised |-> NoExc]

\* the logging system hands a record to the sink
Emit ==
    /\ Len(logPublished) < MaxLogs
    /\ \E record \in LogRecords, of \in Outcomes, op \in Outcomes :
         LET r == emit(record, of, op, logPublished, now)
         IN  /\ logPublished' = r.published
             /\ logEscaped'   = r.raised
    /\ UNCHANGED <<cmdVars, loopThread, evVars, gwVars>>

NextLog ==
    \/ Emit
    \/ Tick

SpecLog == Init /\ [][NextLog]_vars

\* C11: emit never raises: whatever formatting the record or publishing
\* the message does, no exception leaves emit.
C11_EmitNeverRaises == logEscaped = NoExc

(***************************************************************************)
(* The event handler on the main thread, for every identifier and every    *)
(* kind of payload.                                                        *)
(***************************************************************************)
MaxFired == 1           \* events handled in one run

\* MarketEvent members: those of the label table and two it does not list
MarketEventTags == DOMAIN event_types \cup {"ReceivedAsset", "OrderUpdate"}

ItemLists ==
    { <<>>,
      << <<"amount", Float(5, 0)>> >>,
      << <<"amount", Float(5, 0)>>, <<"timestamp", Float(1000, 1)>> >>,
      << <<"timestamp", Float(1000, 0)>>, <<"amount", Float(5, 1)>> >>,
      << <<"amount", Float(5, 0)>>, <<"timestamp", NotANumber>> >> }

\* "other" is an object dict() rejects, whatever it holds
PayloadShapes == {"dataclass", "namedtuple", "mapping", "other"}
Payloads      == {Payload(sh, it) : sh \in PayloadShapes, it \in ItemLists}

\* _send_mqtt_event(event_tag, pubsub, event) called on the main thread
HandleEvent ==
    /\ Len(sent) < MaxFired
    /\ \E tag \in MarketEventTags, event \in Payloads :
         LET cb == [tag |-> tag, event |-> event, id |-> Len(sent) + 1]
             r  == send_mqtt_event(MainThread, cb, ready, published, now)
         IN  /\ sent' = Append(sent, [thread |-> MainThread, tag |-> tag,
                                      event |-> event])
             /\ ready' = r.ready
             /\ published' = r.published
             /\ evEscaped' = r.raised
    /\ UNCHANGED <<cmdVars, loopThread, now, restVars>>

NextPayload ==
    \/ HandleEvent
    \/ Tick

SpecPayload == InitGateway /\ [][NextPayload]_vars

\* the mapping a payload is expected to give: its items when it is a
\* record, a named tuple or a mapping, nothing otherwise
Convertible(event) == event.shape \in {"dataclass", "namedtuple", "mapping"}
ItemsOf(event)     == IF Convertible(event) THEN event.items ELSE <<>>
KeysOf(d)          == {d[i][1] : i \in 1..Len(d)}
Entry(d, k)        == CHOOSE v \in {d[i][2] : i \in 1..Len(d)} :
                          \E i \in 1..Len(d) : d[i] = <<k, v>>
Without(d, k)      == SelectSeq(d, LAMBDA item : item[1] # k)

\* C12: whatever the payload, the handler on the main thread does not raise
\* and publishes exactly one message per event; a payload that converts to
\* no mapping is published with empty data.
C12_AnyPayloadPublishedOnce ==
    /\ evEscaped = NoExc
    /\ Len(published) = Len(sent)
    /\ \A i \in 1..Len(published) :
         /\ published[i].id = i
         /\ ~Convertible(sent[i].event) => published[i].msg.data = <<>>

\* C13: the type of a published message is the table's label of the event
\* identifier when the table lists it, and "Unknown" otherwise.
C13_TypeIsTableLabel ==
    \A i \in 1..Len(published) :
        LET tag == sent[published[i].id].tag
        IN  IF tag \in DOMAIN event_types
            THEN published[i].msg.type = event_types[tag]
            ELSE published[i].msg.type = "Unknown"

C13_Witness ==
    /\ Len(published) = 1
    /\ sent[published[1].id].tag = "OrderUpdate"
    /\ published[1].msg.type = "Unknown"

\* the data of a published message: the mapping without the timestamp entry
C14_DataKept(p) ==
    p.msg.data = Without(ItemsOf(sent[p.id].event), "timestamp")

\* C14 as stated: with a timestamp entry the published timestamp is that
\* entry's value, without one it is the wall-clock time; the data is the
\* mapping without the timestamp entry.
C14_TimestampIsEntryValue ==
    \A i \in 1..Len(published) :
        LET p == published[i]
            d == ItemsOf(sent[p.id].event)
        IN  /\ C14_DataKept(p)
            /\ IF "timestamp" \in KeysOf(d)
               THEN Float(p.msg.timestamp, 0) = Entry(d, "timestamp")
               ELSE Float(p.msg.timestamp, 0) = WallClock(p.at)

\* C14, amended: the published timestamp is the whole part of the entry's
\* value, or of the wall-clock time when there is no entry; the data is the
\* mapping without the timestamp entry, the other entries unchanged.
C14_TimestampIsIntOfEntry ==
    \A i \in 1..Len(published) :
        LET p == published[i]
            d == ItemsOf(sent[p.id].event)
        IN  /\ C14_DataKept(p)
            /\ IF "timestamp" \in KeysOf(d)
               THEN p.msg.timestamp = Entry(d, "timestamp").whole
               ELSE p.msg.timestamp = WallClock(p.at).whole

\* a record {amount: 5, timestamp: 1000.5} published as 1000, {amount: 5}
C14_Witness ==
    /\ Len(published) = 1
    /\ sent[1].event = Payload("dataclass",
           << <<"amount", Float(5, 0)>>, <<"timestamp", Float(1000, 1)>> >>)
    /\ published[1].msg.timestamp = 1000
    /\ published[1].msg.data = << <<"amount", Float(5, 0)>> >>

(***************************************************************************)
(* MQTTEventForwarder.__init__, start_event_listener, stop_event_listener  *)
(***************************************************************************)
MaxStarts == 2          \* start_* calls / forwarder constructions in one run

Markets == {"m1", "m2"}

\* the event types of _market_event_pairs, lines 263-279
market_event_pairs_and_update ==
    {"BuyOrderCreated", "BuyOrderCompleted", "SellOrderCreated",
     "SellOrderCompleted", "OrderFilled", "OrderFailure", "OrderCancelled",
     "OrderExpired", "FundingPaymentCompleted", "RangePositionLiquidityAdded",
     "RangePositionLiquidityRemoved", "RangePositionUpdate",
     "RangePositionUpdateFailure", "RangePositionFeeCollected",
     "RangePositionClosed", "OrderUpdate"}

market_event_pairs ==
    {"BuyOrderCreated", "BuyOrderCompleted", "SellOrderCreated",
     "SellOrderCompleted", "OrderFilled", "OrderFailure", "OrderCancelled",
     "OrderExpired", "FundingPaymentCompleted", "RangePositionLiquidityAdded",
     "RangePositionLiquidityRemoved", "RangePositionUpdate",
     "RangePositionUpdateFailure", "RangePositionFeeCollected",
     "RangePositionClosed"}

\* _app_event_pairs, line 280
app_event_pairs == {}

\* PubSub.add_listener / remove_listener: the listeners of an event type on
\* an object are a set
add_listener(ls, f, market, tag)    == ls \cup {<<f, market, tag>>}
remove_listener(ls, f, market, tag) == ls \ {<<f, market, tag>>}

\* the loops `for market in self._markets: for event_pair in ...`
\* (adding = TRUE: the add_listener loops, FALSE: the remove_listener loops)
RECURSIVE ForEachPair(_, _, _, _)
ForEachPair(adding, ls, f, todo) ==
    IF todo = {} THEN ls
    ELSE LET p == CHOOSE x \in todo : TRUE
             l == IF adding THEN add_listener(ls, f, p[1], p[2])
                  ELSE remove_listener(ls, f, p[1], p[2])
         IN  ForEachPair(adding, l, f, todo \ {p})

start_event_listener(ls, f, markets) ==
    ForEachPair(TRUE, ls, f,
                (markets \X market_event_pairs) \cup ({"app"} \X app_event_pairs))

\* a stop that walks a shorter list than start
stop_event_listener_short(ls, f, markets) ==
    ForEachPair(FALSE, ls, f,
                (markets \X (market_event_pairs \ {"RangePositionClosed"}))
                    \cup ({"app"} \X app_event_pairs))

stop_event_listener(ls, f, markets) ==
    ForEachPair(FALSE, ls, f,
                (markets \X market_event_pairs) \cup ({"app"} \X app_event_pairs))

\* `threading.current_thread() != threading.main_thread()`, line 249
OffMainNever(t) == FALSE

OffMain(t) == t # MainThread

EnvironmentErrorMsg ==
    "MQTTEventForwarder can only be initialized from the main thread."

\* MQTTEventForwarder(hb_app, node) called on thread t
ForwarderInit(t) ==
    IF OffMain(t)
    THEN /\ fwEscaped' = EnvironmentErrorMsg
         /\ UNCHANGED <<fwMarkets, evPublishers, listeners, lastOp>>
    ELSE /\ fwEscaped' = NoExc
         /\ fwMarkets' = Append(fwMarkets, appMarkets)
         /\ evPublishers' = evPublishers + 1
         /\ listeners' = start_event_listener(listeners, Len(fwMarkets) + 1,
                                              appMarkets)
         /\ lastOp' = Append(lastOp, "start")

\* the constructor called directly
ConstructForwarder(t) ==
    /\ Len(startLog) < MaxStarts
    /\ startLog' = Append(startLog, [op |-> "forwarder", thread |-> t,
                                     enabled |-> TRUE])
    /\ ForwarderInit(t)
    /\ UNCHANGED <<cmdVars, loopThread, evVars, logVars, toggles, appMarkets,
                   commandSets, notifiers>>

StartListener(f) ==
    /\ f \in 1..Len(fwMarkets)
    /\ listeners' = start_event_listener(listeners, f, fwMarkets[f])
    /\ lastOp' = [lastOp EXCEPT ![f] = "start"]
    /\ UNCHANGED <<cmdVars, loopThread, evVars, logVars, toggles, appMarkets,
                   commandSets, notifiers, fwMarkets, evPublishers, startLog,
                   fwEscaped>>

StopListener(f) ==
    /\ f \in 1..Len(fwMarkets)
    /\ listeners' = stop_event_listener(listeners, f, fwMarkets[f])
    /\ lastOp' = [lastOp EXCEPT ![f] = "stop"]
    /\ UNCHANGED <<cmdVars, loopThread, evVars, logVars, toggles, appMarkets,
                   commandSets, notifiers, fwMarkets, evPublishers, startLog,
                   fwEscaped>>

\* the application gains or loses a connector
SetMarkets ==
    /\ \E ms \in SUBSET Markets : ms # appMarkets /\ appMarkets' = ms
    /\ UNCHANGED <<cmdVars, loopThread, evVars, logVars, toggles,
                   commandSets, notifiers, fwMarkets, evPublishers, listeners,
                   lastOp, startLog, fwEscaped>>

\* a market triggers an event of some type on the main thread: each
\* listener registered for that type on that market is called
MarketFires(f, market, tag) ==
    /\ <<f, market, tag>> \in listeners
    /\ Len(sent) < MaxFired
    /\ LET cb == [tag |-> tag, event |-> OrderFilledEvent, id |-> Len(sent) + 1]
           r  == send_mqtt_event(MainThread, cb, ready, published, now)
       IN  /\ sent' = Append(sent, [thread |-> MainThread, tag |-> tag,
                                    event |-> OrderFilledEvent])
           /\ ready' = r.ready
           /\ published' = r.published
           /\ evEscaped' = r.raised
    /\ UNCHANGED <<cmdVars, loopThread, now, restVars>>

\* construction and registration of forwarders
NextForwarder ==
    \/ \E t \in Threads : ConstructForwarder(t)
    \/ \E f \in 1..MaxStarts : StartListener(f)
    \/ \E f \in 1..MaxStarts : StopListener(f)
    \/ SetMarkets

SpecForwarder == InitGateway /\ [][NextForwarder]_vars

\* forwarders built over an application whose markets are in place, and
\* the events those markets then trigger
InitDelivery ==
    /\ configurable = {}
    /\ request  = NoRequest
    /\ caller   = NoThread
    /\ phase    = "idle"
    /\ response = NoResponse
    /\ escaped  = NoExc
    /\ calls    = <<>>
    /\ loopThread = NoThread
    /\ ready     = <<>>
    /\ published = <<>>
    /\ sent      = <<>>
    /\ now       = 0
    /\ evEscaped = NoExc
    /\ logPublished = <<>>
    /\ logEscaped   = NoExc
    /\ toggles      = [commands |-> FALSE, events |-> FALSE, notifier |-> FALSE]
    /\ appMarkets   \in (SUBSET Markets) \ {{}}
    /\ commandSets  = 0
    /\ notifiers    = 0
    /\ fwMarkets    = <<>>
    /\ evPublishers = 0
    /\ listeners    = {}
    /\ lastOp       = <<>>
    /\ startLog     = <<>>
    /\ fwEscaped    = NoExc

NextDelivery ==
    \/ \E t \in Threads : ConstructForwarder(t)
    \/ \E f \in 1..MaxStarts, market \in Markets, tag \in MarketEventTags :
           MarketFires(f, market, tag)

SpecDelivery == InitDelivery /\ [][NextDelivery]_vars

\* the <<market, event type>> pairs forwarder f is registered for
ListenersOf(f) == {<<l[2], l[3]>> : l \in {x \in listeners : x[1] = f}}

\* forwarder constructions asked for on the main thread with the toggle on
MainConstructions ==
    Cardinality({i \in 1..Len(startLog) :
                    /\ startLog[i].op \in {"forwarder", "events"}
                    /\ startLog[i].enabled
                    /\ startLog[i].thread = MainThread})

\* C17: start_event_listener and stop_event_listener of a forwarder cover
\* the same (market, event type) pairs: after any sequence of start and stop
\* calls the forwarder is registered for exactly its markets x event types
\* if the last call was start, and for nothing if it was stop; so a repeated
\* start or stop changes nothing.
C17_RegistrationSymmetric ==
    \A f \in 1..Len(fwMarkets) :
        IF lastOp[f] = "start"
        THEN ListenersOf(f) = (fwMarkets[f] \X market_event_pairs)
                                  \cup ({"app"} \X app_event_pairs)
        ELSE ListenersOf(f) = {}

\* a forwarder built over two markets, stopped after the application's
\* markets changed
C17_Witness ==
    /\ Len(fwMarkets) >= 1
    /\ fwMarkets[1] = Markets
    /\ appMarkets # Markets
    /\ lastOp[1] = "stop"
    /\ ListenersOf(1) = {}

\* C19: every event type the forwarder registers for is in the label
\* table, so a message published for an event that came through one of its
\* listeners never has type "Unknown".
C19_RegisteredTypesLabelled ==
    /\ \A l \in listeners : l[3] \in DOMAIN event_types
    /\ \A i \in 1..Len(published) : published[i].msg.type # "Unknown"

C19_Witness ==
    /\ Len(published) = 1
    /\ sent[1].tag = "RangePositionClosed"
    /\ published[1].msg.type = "RangePositionClosed"

\* C20: a forwarder construction on a thread other than the main thread
\* raises the environment error and changes nothing: publishers and
\* forwarders exist only for constructions on the main thread, and every
\* listener belongs to one of those.
C20_OffMainConstructionRejected ==
    /\ Len(fwMarkets) = MainConstructions
    /\ evPublishers = MainConstructions
    /\ \A l \in listeners : l[1] \in 1..MainConstructions
    /\ startLog # <<>> =>
         LET last == startLog[Len(startLog)]
         IN  (last.op \in {"forwarder", "events"} /\ last.enabled) =>
                 (fwEscaped = EnvironmentErrorMsg <=> last.thread # MainThread)

\* the application has a market, the only construction was tried on t1
C20_Witness ==
    /\ appMarkets = {"m1"}
    /\ Len(startLog) = 1
    /\ startLog[1].thread = "t1"
    /\ fwEscaped = EnvironmentErrorMsg
    /\ evPublishers = 0
    /\ listeners = {}

\* C18: the status handler hands back its response only in a step that
\* ends its wait for strategy_status(): a status response never appears
\* without the handler having blocked on the computation, and a successful
\* one carries the computation's text, trimmed.  (The claim adds that on
\* the context that drives the computation the wait can last forever.)
C18_StatusReturnsAfterCompletion ==
    [][(request'.kind = "status" /\ phase' = "returned" /\ phase # "returned")
          => /\ phase = "awaiting"
             /\ response'.status = STATUS_OK =>
                    \E text \in StatusTexts : response'.data = Strip(text)]_vars

(***************************************************************************)
(* MQTTGateway.start_notifier / start_commands / start_event_fw            *)
(***************************************************************************)
Components == {"commands", "events", "notifier"}

\* the user edits client_config_map.mqtt_bridge
SetToggle(c) ==
    /\ toggles' = [toggles EXCEPT ![c] = ~@]
    /\ UNCHANGED <<cmdVars, loopThread, evVars, logVars, appMarkets,
                   commandSets, notifiers, fwMarkets, evPublishers, listeners,
                   lastOp, startLog, fwEscaped>>

Logged(op, t, enabled) ==
    /\ Len(startLog) < MaxStarts
    /\ startLog' = Append(startLog, [op |-> op, thread |-> t,
                                     enabled |-> enabled])

StartNotifier ==
    /\ Logged("notifier", MainThread, toggles.notifier)
    /\ notifiers' = IF toggles.notifier THEN notifiers + 1 ELSE notifiers
    /\ UNCHANGED <<cmdVars, loopThread, evVars, logVars, toggles, appMarkets,
                   commandSets, fwMarkets, evPublishers, listeners, lastOp,
                   fwEscaped>>

StartCommands ==
    /\ Logged("commands", MainThread, toggles.commands)
    /\ commandSets' = IF toggles.commands THEN commandSets + 1 ELSE commandSets
    /\ UNCHANGED <<cmdVars, loopThread, evVars, logVars, toggles, appMarkets,
                   notifiers, fwMarkets, evPublishers, listeners, lastOp,
                   fwEscaped>>

StartEventFw(t) ==
    /\ Logged("events", t, toggles.events)
    /\ IF toggles.events
       THEN ForwarderInit(t)
       ELSE UNCHANGED <<fwMarkets, evPublishers, listeners, lastOp, fwEscaped>>
    /\ UNCHANGED <<cmdVars, loopThread, evVars, logVars, toggles, appMarkets,
                   commandSets, notifiers>>

NextGateway ==
    \/ \E c \in Components : SetToggle(c)
    \/ StartNotifier
    \/ StartCommands
    \/ \E t \in Threads : StartEventFw(t)
    \/ SetMarkets

SpecGateway == InitGateway /\ [][NextGateway]_vars

Built(c) == CASE c = "commands" -> commandSets
              [] c = "notifier" -> notifiers
              [] c = "events"   -> Len(fwMarkets)

\* start calls for component c made while its toggle was on (for the
\* forwarder: on the main thread, the only place it can be built)
EnabledCalls(c) ==
    {i \in 1..Len(startLog) :
        /\ startLog[i].op = c
        /\ startLog[i].enabled
        /\ startLog[i].thread = MainThread}

\* C16: over any sequence of start_commands, start_event_fw and
\* start_notifier calls, a component is built and registered exactly once
\* if it was started with its toggle on, and not at all otherwise, whatever
\* the other toggles are.
C16_EachComponentBuiltOnce ==
    \A c \in Components :
        Built(c) = IF EnabledCalls(c) # {} THEN 1 ELSE 0

====
